---------------------------- MODULE Spec2Model ----------------------------
(***************************************************************************)
(* A model of src/app.py: the resume/job batch scoring engine.             *)
(*                                                                         *)
(* A Python str is a sequence of one-character strings, so that strip,     *)
(* split, splitlines, startswith, lower, isdigit and int are computed the  *)
(* way Python computes them.  Python's None, where a text may be absent,   *)
(* is the one-element sequence None (no character is spelled "None").      *)
(***************************************************************************)
EXTENDS Integers, Sequences, FiniteSets

(***************************************************************************)
(* Bounds of the model.                                                    *)
(***************************************************************************)
\* longest text handed to compress_text
MaxTextLen == 4
\* largest max_chars handed to compress_text
MaxChars == 3
\* most tokens in a free-form response text handed to the parser alone
MaxTokens == 4
\* most segments in a response written in the instructed shape
MaxSegs == 3
\* most jobs in a batch handed directly to score_all_jobs_against_resume
MaxBatch == 3
\* most tokens in a free-form response text met by an invocation
MaxReplyTokens == 2

(***************************************************************************)
(* Python str primitives.                                                  *)
(***************************************************************************)
None == <<"None">>

\* the characters str.strip() removes and str.isspace() accepts
WhiteSpace == {" ", "\n", "\t"}

\* the line boundaries of str.splitlines() that occur in the modelled texts
LineBreaks == {"\n"}

UpperCase ==
    <<"A","B","C","D","E","F","G","H","I","J","K","L","M",
      "N","O","P","Q","R","S","T","U","V","W","X","Y","Z">>

LowerCase ==
    <<"a","b","c","d","e","f","g","h","i","j","k","l","m",
      "n","o","p","q","r","s","t","u","v","w","x","y","z">>

DecimalDigits == <<"0","1","2","3","4","5","6","7","8","9">>

\* characters for which str.isdigit() is true and which int() rejects with
\* ValueError (superscript two, written "sup2")
NonDecimalDigits == {"sup2"}

Min(S) == CHOOSE x \in S : \A y \in S : x <= y

Max(S) == CHOOSE x \in S : \A y \in S : x >= y

\* c.lower()
LowerChar(c) ==
    IF \E i \in 1..Len(UpperCase) : UpperCase[i] = c
    THEN LowerCase[CHOOSE i \in 1..Len(UpperCase) : UpperCase[i] = c]
    ELSE c

\* s.lower()
Lower(s) == [i \in 1..Len(s) |-> LowerChar(s[i])]

\* c.isdigit()
IsDigit(c) ==
    \/ \E i \in 1..Len(DecimalDigits) : DecimalDigits[i] = c
    \/ c \in NonDecimalDigits

\* the value of decimal digit c
DigitVal(c) == (CHOOSE i \in 1..Len(DecimalDigits) : DecimalDigits[i] = c) - 1

\* s.startswith(prefix)
StartsWith(s, prefix) ==
    /\ Len(s) >= Len(prefix)
    /\ SubSeq(s, 1, Len(prefix)) = prefix

\* s.find(sub) + 1: the first position where sub occurs in s, 0 when none
Find(s, sub) ==
    LET hits == {i \in 1..(Len(s) - Len(sub) + 1) :
                    SubSeq(s, i, i + Len(sub) - 1) = sub}
    IN  IF hits = {} THEN 0 ELSE Min(hits)

\* sub in s
Contains(s, sub) == Find(s, sub) # 0

\* s[:n]
SliceTo(s, n) ==
    IF n >= 0
    THEN SubSeq(s, 1, Min({n, Len(s)}))
    ELSE SubSeq(s, 1, Max({0, Len(s) + n}))

RECURSIVE LStrip(_)
LStrip(s) ==
    IF s # <<>> /\ Head(s) \in WhiteSpace THEN LStrip(Tail(s)) ELSE s

RECURSIVE RStrip(_)
RStrip(s) ==
    IF s # <<>> /\ s[Len(s)] \in WhiteSpace
    THEN RStrip(SubSeq(s, 1, Len(s) - 1))
    ELSE s

\* s.strip()
Strip(s) == RStrip(LStrip(s))

\* s.split(sep), sep non-empty: the pieces between the non-overlapping
\* occurrences of sep, scanned left to right
RECURSIVE Split(_, _)
Split(s, sep) ==
    LET i == Find(s, sep)
    IN  IF i = 0
        THEN <<s>>
        ELSE <<SubSeq(s, 1, i - 1)>> \o Split(SubSeq(s, i + Len(sep), Len(s)), sep)

\* s.splitlines(): no line for the empty string, none after a final break
RECURSIVE SplitLines(_)
SplitLines(s) ==
    LET breaks == {i \in 1..Len(s) : s[i] \in LineBreaks}
    IN  IF s = <<>>
        THEN <<>>
        ELSE IF breaks = {}
             THEN <<s>>
             ELSE <<SubSeq(s, 1, Min(breaks) - 1)>>
                  \o SplitLines(SubSeq(s, Min(breaks) + 1, Len(s)))

\* int(digits) for a non-empty string of decimal digits
RECURSIVE IntOf(_)
IntOf(digits) ==
    IF digits = <<>>
    THEN 0
    ELSE 10 * IntOf(SubSeq(digits, 1, Len(digits) - 1)) + DigitVal(digits[Len(digits)])

\* "not text": None and the empty string are falsy
Falsy(text) == text = None \/ text = <<>>

(***************************************************************************)
(* compress_text                                                           *)
(***************************************************************************)
Ellipsis == <<".", ".", ".">>

\* compress_text without the strip() of line 61
compress_text_unstripped(text, max_chars) ==
    IF Falsy(text)
    THEN <<>>
    ELSE IF Len(text) > max_chars
         THEN SliceTo(text, max_chars) \o Ellipsis
         ELSE text

compress_text(text, max_chars) ==
    IF Falsy(text)
    THEN <<>>
    ELSE LET stripped == Strip(text)
         IN  IF Len(stripped) > max_chars
             THEN SliceTo(stripped, max_chars) \o Ellipsis
             ELSE stripped

(***************************************************************************)
(* The response parser: score_all_jobs_against_resume, part 3              *)
(***************************************************************************)
JobSep == <<"J","o","b"," ">>

ScorePrefix == <<"s","c","o","r","e">>

\* digits = "".join(c for c in line if c.isdigit()); score = int(digits),
\* 0 when digits is empty or int() raises ValueError
ScoreOfLine(line) ==
    LET digits == SelectSeq(line, IsDigit)
    IN  IF digits = <<>>
        THEN 0
        ELSE IF \E i \in 1..Len(digits) : digits[i] \in NonDecimalDigits
             THEN 0
             ELSE IntOf(digits)

\* the for-loop over block.splitlines(): the first line that starts with
\* "score" decides, and the loop breaks there
ScoreOfBlock(block) ==
    LET lines == SplitLines(block)
        hits  == {i \in 1..Len(lines) : StartsWith(Lower(lines[i]), ScorePrefix)}
    IN  IF hits = {} THEN 0 ELSE ScoreOfLine(lines[Min(hits)])

\* the for-loop over raw_blocks without its "if not block: continue"
RECURSIVE ParseBlocksKeepBlank(_)
ParseBlocksKeepBlank(raw_blocks) ==
    IF raw_blocks = <<>>
    THEN <<>>
    ELSE <<[score |-> ScoreOfBlock(Strip(Head(raw_blocks))),
            analysis_text |-> JobSep \o Strip(Head(raw_blocks))]>>
         \o ParseBlocksKeepBlank(Tail(raw_blocks))

\* the for-loop over raw_blocks with results.insert(0, ...) for results.append
RECURSIVE ParseBlocksNewestFirst(_)
ParseBlocksNewestFirst(raw_blocks) ==
    IF raw_blocks = <<>>
    THEN <<>>
    ELSE LET block == Strip(Head(raw_blocks))
         IN  IF block = <<>>
             THEN ParseBlocksNewestFirst(Tail(raw_blocks))
             ELSE ParseBlocksNewestFirst(Tail(raw_blocks))
                  \o <<[score |-> ScoreOfBlock(block),
                         analysis_text |-> JobSep \o block]>>

\* the for-loop over raw_blocks: blank blocks are skipped, every other block
\* appends one record
RECURSIVE ParseBlocks(_)
ParseBlocks(raw_blocks) ==
    IF raw_blocks = <<>>
    THEN <<>>
    ELSE LET block == Strip(Head(raw_blocks))
         IN  IF block = <<>>
             THEN ParseBlocks(Tail(raw_blocks))
             ELSE <<[score |-> ScoreOfBlock(block),
                     analysis_text |-> JobSep \o block]>>
                  \o ParseBlocks(Tail(raw_blocks))

\* content = response.choices[0].message.content.strip(), split on "Job "
ParseResponse(raw) == ParseBlocks(Split(Strip(raw), JobSep))

(***************************************************************************)
(* Response texts of the generation collaborator.                          *)
(***************************************************************************)
RECURSIVE Concat(_)
Concat(seqs) == IF seqs = <<>> THEN <<>> ELSE Head(seqs) \o Concat(Tail(seqs))

SeqsUpTo(S, n) == UNION {[1..k -> S] : k \in 0..n}

\* the decimal numeral of a natural number
RECURSIVE DecimalOf(_)
DecimalOf(n) ==
    IF n < 10
    THEN <<DecimalDigits[n + 1]>>
    ELSE DecimalOf(n \div 10) \o <<DecimalDigits[(n % 10) + 1]>>

\* pieces a free-form (malformed, truncated, empty) response is made of
Tokens ==
    { JobSep,
      <<"\n">>,
      <<" ">>,
      <<"S","c","o","r","e",":">>,
      <<"s","c","o","r","e">>,
      <<"8">>,
      <<"1","0">>,
      <<"/">>,
      <<"sup2">> }

FreeTexts == {Concat(toks) : toks \in SeqsUpTo(Tokens, MaxTokens)}

\* what the collaborator may write in one segment of the instructed shape
WrittenScores == {0, 85, 100}

WrittenReasons == { <<"o","k">>, <<"a","\n","b">> }

WrittenMessages == { <<"h","i">>, <<"J","o","b"," ","f","i","t">> }

WrittenSegments ==
    [score : WrittenScores, reason : WrittenReasons, message : WrittenMessages]

\* segment i in the instructed shape:
\*   Job <number> / Score: <0-100> / Reason: ... / Message: ...
RenderSegment(i, seg) ==
    JobSep \o DecimalOf(i) \o <<"\n">>
    \o <<"S","c","o","r","e",":"," ">> \o DecimalOf(seg.score) \o <<"\n">>
    \o <<"R","e","a","s","o","n",":"," ">> \o seg.reason \o <<"\n">>
    \o <<"M","e","s","s","a","g","e",":"," ">> \o seg.message

RECURSIVE RenderFrom(_, _)
RenderFrom(i, segs) ==
    IF i > Len(segs)
    THEN <<>>
    ELSE RenderSegment(i, segs[i])
         \o (IF i < Len(segs) THEN <<"\n","\n">> ELSE <<>>)
         \o RenderFrom(i + 1, segs)

\* a response of Len(segs) segments in the instructed shape, in input order
Render(segs) == RenderFrom(1, segs)

(***************************************************************************)
(* Fixed texts of the program.                                             *)
(***************************************************************************)
\* analysis_text of the rate-limit fallback records
RateLimitFallbackText ==
    <<"R","a","t","e"," ","l","i","m","i","t"," ","r","e","a","c","h","e",
      "d"," ","w","h","i","l","e"," ","s","c","o","r","i","n","g"," ","t",
      "h","i","s"," ","j","o","b","."," ","P","l","e","a","s","e"," ","t",
      "r","y"," ","r","u","n","n","i","n","g"," ","t","h","e"," ","j","o",
      "b"," ","s","e","a","r","c","h"," ","a","g","a","i","n"," ","a","f",
      "t","e","r"," ","s","o","m","e"," ","t","i","m","e",".">>

\* analysis_text of the generic fallback records
InternalErrorFallbackText ==
    <<"C","o","u","l","d"," ","n","o","t"," ","g","e","t"," ","A","I","-",
      "b","a","s","e","d"," ","s","c","o","r","i","n","g"," ","d","u","e",
      " ","t","o"," ","a","n"," ","i","n","t","e","r","n","a","l"," ","e",
      "r","r","o","r",".">>

\* analysis_text of index's length-mismatch fallback records
ParsingIssueFallbackText ==
    <<"C","o","u","l","d"," ","n","o","t"," ","g","e","t"," ","A","I","-",
      "b","a","s","e","d"," ","s","c","o","r","i","n","g"," ","f","o","r",
      " ","t","h","i","s"," ","j","o","b"," ","d","u","e"," ","t","o"," ",
      "a"," ","p","a","r","s","i","n","g"," ","i","s","s","u","e",".">>

NoJobsError ==
    <<"N","o"," ","j","o","b","s"," ","f","o","u","n","d"," ","f","r","o",
      "m"," ","t","h","e"," ","A","P","I"," ","(","o","r"," ","t","h","e",
      " ","j","o","b"," ","A","P","I"," ","t","i","m","e","d"," ","o","u",
      "t",")","."," ","T","r","y"," ","c","h","a","n","g","i","n","g"," ",
      "r","o","l","e"," ","o","r"," ","l","o","c","a","t","i","o","n"," ",
      "a","n","d"," ","t","r","y"," ","a","g","a","i","n",".">>

SomethingWentWrong ==
    <<"S","o","m","e","t","h","i","n","g"," ","w","e","n","t"," ","w","r",
      "o","n","g",":"," ">>

UploadPdfError ==
    <<"P","l","e","a","s","e"," ","u","p","l","o","a","d"," ","a"," ","P",
      "D","F"," ","r","e","s","u","m","e",".">>

OnlyPdfError ==
    <<"O","n","l","y"," ","P","D","F"," ","f","i","l","e","s"," ","a","r",
      "e"," ","s","u","p","p","o","r","t","e","d",".">>

TargetRoleError ==
    <<"P","l","e","a","s","e"," ","e","n","t","e","r"," ","a"," ","t","a",
      "r","g","e","t"," ","r","o","l","e",".">>

NoTextError ==
    <<"C","o","u","l","d"," ","n","o","t"," ","e","x","t","r","a","c","t",
      " ","t","e","x","t"," ","f","r","o","m"," ","t","h","i","s"," ","P",
      "D","F","."," ","T","r","y"," ","a"," ","t","e","x","t","-","b","a",
      "s","e","d"," ","r","e","s","u","m","e"," ","P","D","F",".">>

PdfSuffix ==
    <<".","p","d","f">>

\* the two substrings the rate-limit classifier looks for
RateLimitNeedle ==
    <<"r","a","t","e"," ","l","i","m","i","t">>

RateLimitExceededNeedle ==
    <<"r","a","t","e","_","l","i","m","i","t","_","e","x","c","e","e","d",
      "e","d">>

(***************************************************************************)
(* Errors the collaborators raise, by their str(e).                        *)
(***************************************************************************)
RateLimitReachedMsg ==
    <<"R","a","t","e"," ","l","i","m","i","t"," ","r","e","a","c","h","e",
      "d"," ","f","o","r"," ","r","e","q","u","e","s","t","s">>

RateLimitExceededMsg ==
    <<"E","r","r","o","r"," ","c","o","d","e",":"," ","4","2","9"," ","-",
      " ","r","a","t","e","_","l","i","m","i","t","_","e","x","c","e","e",
      "d","e","d">>

InvalidKeyMsg ==
    <<"E","r","r","o","r"," ","c","o","d","e",":"," ","4","0","1"," ","-",
      " ","I","n","c","o","r","r","e","c","t"," ","A","P","I"," ","k","e",
      "y">>

ConnectionMsg ==
    <<"C","o","n","n","e","c","t","i","o","n"," ","e","r","r","o","r",".">>

\* AttributeError of None.strip(): a completion whose message.content is None
NoneTypeErrorText ==
    <<"'","N","o","n","e","T","y","p","e","'"," ","o","b","j","e","c","t",
      " ","h","a","s"," ","n","o"," ","a","t","t","r","i","b","u","t","e",
      " ","'","s","t","r","i","p","'">>

\* an error PdfReader raises on a damaged file
PdfReadErrorText ==
    <<"E","O","F"," ","m","a","r","k","e","r"," ","n","o","t"," ","f","o",
      "u","n","d">>

(***************************************************************************)
(* Program constants.                                                      *)
(***************************************************************************)
max_gpt_retries == 2
ResumeBudget == 2000
DescriptionBudget == 800
DefaultMaxJobs == 5
MaxJobsCap == 3
MinJobs == 1

(***************************************************************************)
(* Job postings of the job source.                                         *)
(***************************************************************************)
Job1 ==
    [job_title |-> <<"d","e","v">>, employer_name |-> <<"A">>,
     job_city |-> <<"X">>, job_country |-> <<"I","N">>,
     job_description |-> <<" ","p","y"," ">>,
     job_apply_link |-> <<"u","1">>, job_google_link |-> None]

Job2 ==
    [job_title |-> <<"o","p","s">>, employer_name |-> <<"B">>,
     job_city |-> None, job_country |-> <<"I","N">>,
     job_description |-> <<"g","o">>,
     job_apply_link |-> None, job_google_link |-> <<"g","2">>]

Job3 ==
    [job_title |-> <<"q","a">>, employer_name |-> <<"C">>,
     job_city |-> None, job_country |-> None,
     job_description |-> None,
     job_apply_link |-> None, job_google_link |-> None]

Job4 ==
    [job_title |-> <<"s","r","e">>, employer_name |-> <<"D">>,
     job_city |-> <<"Y">>, job_country |-> None,
     job_description |-> <<"c">>,
     job_apply_link |-> <<"u","4">>, job_google_link |-> <<"g","4">>]

JobPool == <<Job1, Job2, Job3, Job4>>

\* a or b
Or(a, b) == IF Falsy(a) THEN b ELSE a

\* s.endswith(suffix)
EndsWith(s, suffix) ==
    /\ Len(s) >= Len(suffix)
    /\ SubSeq(s, Len(s) - Len(suffix) + 1, Len(s)) = suffix

\* int(s): [ok |-> FALSE] stands for ValueError
PyInt(s) ==
    LET t      == Strip(s)
        signed == t # <<>> /\ t[1] \in {"-", "+"}
        body   == IF signed THEN Tail(t) ELSE t
        ok     == /\ body # <<>>
                  /\ \A i \in 1..Len(body) :
                        \E d \in 1..Len(DecimalDigits) : DecimalDigits[d] = body[i]
    IN  [ok  |-> ok,
         val |-> IF ~ok THEN 0
                 ELSE IF t[1] = "-" THEN 0 - IntOf(body) ELSE IntOf(body)]

(***************************************************************************)
(* score_all_jobs_against_resume, parts 1 and 2                            *)
(***************************************************************************)
\* score_all_jobs_against_resume without its empty-batch return
EmptyBatchIgnored(js) == FALSE

\* "if not jobs"
EmptyBatch(js) == js = <<>>

\* job blocks numbered by enumerate(jobs) without start=1
JobBlockZeroBased(i, job) ==
    [kind        |-> "job",
     ordinal     |-> i - 1,
     title       |-> job.job_title,
     company     |-> job.employer_name,
     location    |-> Or(Or(job.job_city, job.job_country), <<>>),
     text        |-> compress_text(job.job_description, DescriptionBudget)]

\* one entry of job_blocks: the job at 1-based position i
JobBlock(i, job) ==
    [kind        |-> "job",
     ordinal     |-> i,
     title       |-> job.job_title,
     company     |-> job.employer_name,
     location    |-> Or(Or(job.job_city, job.job_country), <<>>),
     text        |-> compress_text(job.job_description, DescriptionBudget)]

PromptBlock(kind, text) ==
    [kind |-> kind, ordinal |-> 0, title |-> <<>>, company |-> <<>>,
     location |-> <<>>, text |-> text]

\* user_prompt, as its blocks in the order of the f-string: the resume, the
\* output-format instructions, then the job blocks
BuildPrompt(resume, js) ==
    <<PromptBlock("resume", compress_text(resume, ResumeBudget)),
      PromptBlock("instructions", <<>>)>>
    \o [i \in 1..Len(js) |-> JobBlock(i, js[i])]

\* the classifier without the lower() of line 197
IsRateLimitCaseSensitive(message) ==
    \/ Contains(message, RateLimitNeedle)
    \/ Contains(message, RateLimitExceededNeedle)

\* an except branch that takes every error for a rate limit
IsRateLimitAlways(message) == TRUE

\* the classifier of the except branch, on str(e)
IsRateLimit(message) ==
    \/ Contains(Lower(message), RateLimitNeedle)
    \/ Contains(Lower(message), RateLimitExceededNeedle)

\* the records returned when the last attempt is rate-limited
RateLimitFallback(js) ==
    [i \in 1..Len(js) |->
        [score |-> 0, analysis_text |-> RateLimitFallbackText]]

\* the records returned when the loop ends with response still None
InternalErrorFallback(js) ==
    [i \in 1..Len(js) |->
        [score |-> 0, analysis_text |-> InternalErrorFallbackText]]

\* a test of last_error where line 221 tests response
ResponseMissingByError(resp, last_err) == last_err # None

\* "if response is None", after the loop
ResponseMissing(resp, last_err) == ~resp.received

\* what the function returns once the loop is left without return or raise:
\* the generic fallback records, or the parse of the response text
ReturnAfterLoop(js, resp, last_err) ==
    IF ResponseMissing(resp, last_err)
    THEN InternalErrorFallback(js)
    ELSE ParseResponse(resp.content)

\* a rate-limit branch that never takes an attempt for the last one
LastAttemptNever(a) == FALSE

\* a rate-limit branch that takes the attempt after the last for the last one
LastAttemptOffByOne(a) == a = max_gpt_retries

\* "if attempt == max_gpt_retries - 1"
LastAttempt(a) == a = max_gpt_retries - 1

(***************************************************************************)
(* index: the form, the reconciliation and the ranking                     *)
(***************************************************************************)
\* the form value without line 285's max(1, min(max_jobs, 3))
MaxJobsOfUnclamped(f) ==
    LET raw == IF f.max_jobs = None THEN DecimalOf(DefaultMaxJobs) ELSE f.max_jobs
    IN  IF PyInt(raw).ok THEN PyInt(raw).val ELSE DefaultMaxJobs

\* max_jobs = max(1, min(int(form.get("max_jobs", "5")), 3)), 5 on ValueError
MaxJobsOf(f) ==
    LET raw == IF f.max_jobs = None THEN DecimalOf(DefaultMaxJobs) ELSE f.max_jobs
        n   == IF PyInt(raw).ok THEN PyInt(raw).val ELSE DefaultMaxJobs
    IN  Max({MinJobs, Min({n, MaxJobsCap})})

\* the record index builds for one job
Scored(job, score, analysis_text) ==
    [title         |-> job.job_title,
     company       |-> job.employer_name,
     location      |-> Or(Or(job.job_city, job.job_country), <<>>),
     apply_link    |-> Or(Or(job.job_apply_link, job.job_google_link), <<>>),
     score         |-> score,
     analysis_text |-> analysis_text]

\* index without its length-mismatch handling: zip() stops at the shorter list
ReconcileZipOnly(limited_jobs, results) ==
    [i \in 1..Min({Len(limited_jobs), Len(results)}) |->
        Scored(limited_jobs[i], results[i].score, results[i].analysis_text)]

\* a length-mismatch handling that keeps the parsed records it has and fills
\* the rest with fallback records
ReconcilePadded(limited_jobs, results) ==
    [i \in 1..Len(limited_jobs) |->
        IF i <= Len(results)
        THEN Scored(limited_jobs[i], results[i].score, results[i].analysis_text)
        ELSE Scored(limited_jobs[i], 0, ParsingIssueFallbackText)]

\* "Safety: length mismatch handle": fallback records when ai_results is
\* empty or of another length than limited_jobs, else the positional merge
Reconcile(limited_jobs, results) ==
    IF results = <<>> \/ Len(results) # Len(limited_jobs)
    THEN [i \in 1..Len(limited_jobs) |->
            Scored(limited_jobs[i], 0, ParsingIssueFallbackText)]
    ELSE [i \in 1..Len(limited_jobs) |->
            Scored(limited_jobs[i], results[i].score, results[i].analysis_text)]

\* an insertion that puts x before the records of the same score
RECURSIVE InsertByScoreBeforeEqual(_, _)
InsertByScoreBeforeEqual(x, sorted) ==
    IF sorted = <<>>
    THEN <<x>>
    ELSE IF Head(sorted).score > x.score
         THEN <<Head(sorted)>> \o InsertByScoreBeforeEqual(x, Tail(sorted))
         ELSE <<x>> \o sorted

\* insertion of x into a list sorted by score, highest first, after every
\* record of the same score
RECURSIVE InsertByScore(_, _)
InsertByScore(x, sorted) ==
    IF sorted = <<>>
    THEN <<x>>
    ELSE IF Head(sorted).score >= x.score
         THEN <<Head(sorted)>> \o InsertByScore(x, Tail(sorted))
         ELSE <<x>> \o sorted

\* list.sort(key=score, reverse=True): stable, highest score first
RECURSIVE SortByScore(_)
SortByScore(list) ==
    IF list = <<>>
    THEN <<>>
    ELSE InsertByScore(list[Len(list)], SortByScore(SubSeq(list, 1, Len(list) - 1)))

\* the error index sets before it reaches scoring, None when it sets none
\* (x is what extract_text_from_pdf does, src what search_jobs returns)
IndexError(f, x, src) ==
    IF f.filename = None \/ f.filename = <<>>
    THEN UploadPdfError
    ELSE IF ~EndsWith(Lower(f.filename), PdfSuffix)
    THEN OnlyPdfError
    ELSE IF Strip(f.target_role) = <<>>
    THEN TargetRoleError
    ELSE IF x.raises
    THEN SomethingWentWrong \o x.text
    ELSE IF Strip(x.text) = <<>>
    THEN NoTextError
    ELSE IF src = <<>>
    THEN NoJobsError
    ELSE None

(***************************************************************************)
(* State.                                                                  *)
(*                                                                         *)
(* Every request is one invocation; what Python keeps in the locals of     *)
(* score_all_jobs_against_resume and index is kept per invocation.  The    *)
(* module-level names the functions read (client, the keys) are never      *)
(* assigned after import and are no part of the state.                     *)
(***************************************************************************)
Invocations == {"r1", "r2"}

VARIABLES
    \* where the invocation is: "idle", "call" (in client...create),
    \* "sleep" (in time.sleep(5)), "scored" (score_all_jobs_against_resume
    \* has returned or raised), "rendered" (index has returned)
    pc,
    \* who called score_all_jobs_against_resume: "none", "direct", "index"
    via,
    \* how score_all_jobs_against_resume ended: "pending", "returned", "raised"
    outcome,
    resume_text, jobs, user_prompt, attempt, response, last_error,
    \* the list score_all_jobs_against_resume returned
    ai_results,
    \* str(e) of the exception it raised, None when none
    raised,
    \* collaborator calls made, backoff sleeps begun, collaborator outcomes
    calls, sleeps, history,
    \* index: the submitted form, search_jobs' list, and what is rendered
    form, raw_jobs, error, scored_jobs, jobs_result,
    \* the compress_text and parser harnesses
    harness, text, max_chars, compressed, content, written, parsed,
    \* search_jobs: where it is ("off", "entry", "request" in requests.get,
    \* "sleep" in time.sleep(3), "done"), its arguments, its loop variable,
    \* the exception it noted, and how it ended
    search_pc, query, location, max_retries, search_attempt, last_exception,
    search_result,
    \* requests made, sleeps begun, and what each request came to
    requests_made, search_sleeps, search_history

score_vars ==
    <<outcome, resume_text, jobs, user_prompt, attempt, response, last_error,
      ai_results, raised, calls, sleeps, history>>

index_vars == <<form, raw_jobs, error, scored_jobs, jobs_result>>

harness_vars == <<harness, text, max_chars, compressed, content, written, parsed>>

search_vars ==
    <<search_pc, query, location, max_retries, search_attempt, last_exception,
      search_result, requests_made, search_sleeps, search_history>>

vars == <<pc, via, score_vars, index_vars, harness_vars, search_vars>>

NoForm ==
    [method |-> "GET", filename |-> None, target_role |-> <<>>, max_jobs |-> None]

NoResponse == [received |-> FALSE, content |-> None]

InvocationsIdle ==
    /\ pc = [p \in Invocations |-> "idle"]
    /\ via = [p \in Invocations |-> "none"]
    /\ outcome = [p \in Invocations |-> "pending"]
    /\ resume_text = [p \in Invocations |-> <<>>]
    /\ jobs = [p \in Invocations |-> <<>>]
    /\ user_prompt = [p \in Invocations |-> <<>>]
    /\ attempt = [p \in Invocations |-> 0]
    /\ response = [p \in Invocations |-> NoResponse]
    /\ last_error = [p \in Invocations |-> None]
    /\ ai_results = [p \in Invocations |-> <<>>]
    /\ raised = [p \in Invocations |-> None]
    /\ calls = [p \in Invocations |-> 0]
    /\ sleeps = [p \in Invocations |-> 0]
    /\ history = [p \in Invocations |-> <<>>]
    /\ form = [p \in Invocations |-> NoForm]
    /\ raw_jobs = [p \in Invocations |-> <<>>]
    /\ error = [p \in Invocations |-> None]
    /\ scored_jobs = [p \in Invocations |-> <<>>]
    /\ jobs_result = [p \in Invocations |-> <<>>]

HarnessOff ==
    /\ harness = "off"
    /\ text = <<>>
    /\ max_chars = 0
    /\ compressed = <<>>
    /\ content = <<>>
    /\ written = <<>>
    /\ parsed = <<>>

NoResult == [kind |-> "pending", data |-> <<>>]

SearchOff ==
    /\ search_pc = "off"
    /\ query = <<>>
    /\ location = <<>>
    /\ max_retries = 0
    /\ search_attempt = 0
    /\ last_exception = "None"
    /\ search_result = NoResult
    /\ requests_made = 0
    /\ search_sleeps = 0
    /\ search_history = <<>>

(***************************************************************************)
(* The inputs and collaborator outcomes an invocation may meet.            *)
(***************************************************************************)
Seg(score, reason, message) ==
    [score |-> score, reason |-> reason, message |-> message]

Plain(score) == Seg(score, <<"o","k">>, <<"h","i">>)

TextOutcome(t) == [kind |-> "text", text |-> t]

ErrorOutcome(m) == [kind |-> "error", text |-> m]

\* a completion whose message.content is None
NoneOutcome == [kind |-> "none", text |-> None]

ResponseTexts ==
    { <<>>,
      <<"s","o","r","r","y">>,
      Render(<<Plain(85)>>),
      Render(<<Plain(85), Plain(100)>>),
      Render(<<Plain(0), Plain(100), Plain(85)>>),
      Render(<<Plain(85), Plain(100), Plain(85)>>),
      Render(<<Plain(85), Plain(0), Plain(100), Plain(85)>>),
      Render(<<Plain(85), Seg(100, <<"o","k">>, <<"J","o","b"," ","f","i","t">>)>>),
      SliceTo(Render(<<Plain(85), Plain(100)>>), 22) }
    \cup {Concat(toks) : toks \in SeqsUpTo(Tokens, MaxReplyTokens)}

ErrorMessages ==
    {RateLimitReachedMsg, RateLimitExceededMsg, InvalidKeyMsg, ConnectionMsg}

Outcomes ==
    {TextOutcome(t) : t \in ResponseTexts}
    \cup {ErrorOutcome(m) : m \in ErrorMessages}
    \cup {NoneOutcome}

Resumes == { <<"c","v">>, <<" ","r","e","s"," ">> }

\* what extract_text_from_pdf does: a text (empty for a scanned PDF) or an error
Extractions ==
    {[raises |-> FALSE, text |-> r] : r \in {<<>>, <<"c","v">>}}
    \cup {[raises |-> TRUE, text |-> PdfReadErrorText]}

Forms ==
    [method      : {"POST"},
     filename    : {None, <<"c","v",".","t","x","t">>, <<"C","V",".","P","D","F">>},
     target_role : {<<" ">>, <<"d","e","v">>},
     max_jobs    : {None, <<"a","b","c">>, <<"0">>, <<"-","2">>, <<"2">>, <<"7">>}]
    \cup {NoForm}

\* what search_jobs may return
SourceLists ==
    {SubSeq(JobPool, 1, k) : k \in 0..Len(JobPool)} \cup {<<Job4, Job2>>}

\* batches handed directly to score_all_jobs_against_resume
Batches == {SubSeq(JobPool, 1, k) : k \in 0..Min({MaxBatch, Len(JobPool)})}

World ==
    [forms       |-> Forms,
     extractions |-> Extractions,
     lists       |-> SourceLists,
     resumes     |-> Resumes,
     batches     |-> Batches,
     outcomes    |-> Outcomes]

(***************************************************************************)
(* Actions.                                                                *)
(***************************************************************************)
\* an assignment to a module-level name, which every invocation sees
SetGlobal(f, p, v) == [q \in DOMAIN f |-> v]

\* an assignment to a local name of invocation p
Set(f, p, v) == [f EXCEPT ![p] = v]

\* score_all_jobs_against_resume from its entry to its first suspension:
\* the empty-batch return, or the prompt and the first collaborator call
ScoreEnter(p, caller, r, js) ==
    /\ via' = Set(via, p, caller)
    /\ resume_text' = Set(resume_text, p, r)
    /\ jobs' = Set(jobs, p, js)
    /\ IF EmptyBatch(js)
       THEN /\ pc' = Set(pc, p, "scored")
            /\ outcome' = Set(outcome, p, "returned")
            /\ ai_results' = Set(ai_results, p, <<>>)
            /\ UNCHANGED user_prompt
       ELSE /\ pc' = Set(pc, p, "call")
            /\ user_prompt' = Set(user_prompt, p, BuildPrompt(r, js))
            /\ UNCHANGED <<outcome, ai_results>>
    /\ UNCHANGED <<attempt, response, last_error, raised, calls, sleeps, history>>

\* a direct call of score_all_jobs_against_resume(resume_text, jobs)
ScoreDirect(p, W) ==
    /\ pc[p] = "idle"
    /\ \E r \in W.resumes, js \in W.batches : ScoreEnter(p, "direct", r, js)
    /\ UNCHANGED <<index_vars, harness_vars, search_vars>>

\* index, from the request to its first suspension in scoring, or to the
\* rendering when it does not reach scoring
IndexRequest(p, W) ==
    /\ pc[p] = "idle"
    /\ \E f \in W.forms, x \in W.extractions, src \in W.lists :
          /\ form' = Set(form, p, f)
          /\ IF f.method = "GET"
             THEN /\ pc' = Set(pc, p, "rendered")
                  /\ UNCHANGED <<via, score_vars, raw_jobs, error>>
             ELSE IF IndexError(f, x, src) # None
             THEN /\ pc' = Set(pc, p, "rendered")
                  /\ error' = Set(error, p, IndexError(f, x, src))
                  /\ raw_jobs' = raw_jobs
                  /\ UNCHANGED <<via, score_vars>>
             ELSE /\ raw_jobs' = Set(raw_jobs, p, src)
                  /\ ScoreEnter(p, "index", x.text, SliceTo(src, MaxJobsOf(f)))
                  /\ UNCHANGED error
    /\ UNCHANGED <<scored_jobs, jobs_result, harness_vars, search_vars>>

\* one attempt of the retry loop: client.chat.completions.create returns or
\* raises, and the function runs on to its return, its raise or its sleep
Collaborate(p, W) ==
    /\ pc[p] = "call"
    /\ \E o \in W.outcomes :
          /\ calls' = Set(calls, p, calls[p] + 1)
          /\ history' = Set(history, p, Append(history[p], o))
          /\ CASE o.kind = "text" ->
                    /\ response' = Set(response, p, [received |-> TRUE, content |-> o.text])
                    /\ ai_results' = Set(ai_results, p,
                          ReturnAfterLoop(jobs[p], [received |-> TRUE, content |-> o.text],
                                          last_error[p]))
                    /\ outcome' = Set(outcome, p, "returned")
                    /\ pc' = Set(pc, p, "scored")
                    /\ UNCHANGED <<last_error, raised, sleeps>>
               [] o.kind = "none" ->
                    /\ response' = Set(response, p, [received |-> TRUE, content |-> None])
                    /\ raised' = Set(raised, p, NoneTypeErrorText)
                    /\ outcome' = Set(outcome, p, "raised")
                    /\ pc' = Set(pc, p, "scored")
                    /\ UNCHANGED <<last_error, ai_results, sleeps>>
               [] o.kind = "error" ->
                    /\ last_error' = Set(last_error, p, o.text)
                    /\ IF IsRateLimit(o.text)
                       THEN IF LastAttempt(attempt[p])
                            THEN /\ ai_results' = Set(ai_results, p, RateLimitFallback(jobs[p]))
                                 /\ outcome' = Set(outcome, p, "returned")
                                 /\ pc' = Set(pc, p, "scored")
                                 /\ UNCHANGED <<raised, sleeps>>
                            ELSE /\ sleeps' = Set(sleeps, p, sleeps[p] + 1)
                                 /\ pc' = Set(pc, p, "sleep")
                                 /\ UNCHANGED <<ai_results, outcome, raised>>
                       ELSE /\ raised' = Set(raised, p, o.text)
                            /\ outcome' = Set(outcome, p, "raised")
                            /\ pc' = Set(pc, p, "scored")
                            /\ UNCHANGED <<ai_results, sleeps>>
                    /\ UNCHANGED response
    /\ UNCHANGED <<via, resume_text, jobs, user_prompt, attempt, index_vars, harness_vars,
                   search_vars>>

\* time.sleep(5) returns: the next iteration of the loop, or, when the range
\* is used up, the "response is None" return after the loop
Backoff(p) ==
    /\ pc[p] = "sleep"
    /\ attempt' = Set(attempt, p, attempt[p] + 1)
    /\ IF attempt[p] + 1 < max_gpt_retries
       THEN /\ pc' = Set(pc, p, "call")
            /\ UNCHANGED <<ai_results, outcome>>
       ELSE /\ ai_results' = Set(ai_results, p,
                     ReturnAfterLoop(jobs[p], response[p], last_error[p]))
            /\ outcome' = Set(outcome, p, "returned")
            /\ pc' = Set(pc, p, "scored")
    /\ UNCHANGED <<via, resume_text, jobs, user_prompt, response, last_error, raised,
                   calls, sleeps, history, index_vars, harness_vars,
                   search_vars>>

\* index after scoring: the except branch, or the reconciliation, the sort
\* and the rendering
IndexRender(p) ==
    /\ pc[p] = "scored"
    /\ via[p] = "index"
    /\ pc' = Set(pc, p, "rendered")
    /\ IF outcome[p] = "raised"
       THEN /\ error' = Set(error, p, SomethingWentWrong \o raised[p])
            /\ UNCHANGED <<scored_jobs, jobs_result>>
       ELSE /\ scored_jobs' = Set(scored_jobs, p, Reconcile(jobs[p], ai_results[p]))
            /\ jobs_result' = Set(jobs_result, p,
                                  SortByScore(Reconcile(jobs[p], ai_results[p])))
            /\ UNCHANGED error
    /\ UNCHANGED <<via, score_vars, form, raw_jobs, harness_vars, search_vars>>

Step(p, W) ==
    \/ ScoreDirect(p, W)
    \/ IndexRequest(p, W)
    \/ Collaborate(p, W)
    \/ Backoff(p)
    \/ IndexRender(p)

Init == InvocationsIdle /\ HarnessOff /\ SearchOff

\* one request at a time
Next == Step("r1", World)

Spec == Init /\ [][Next]_vars

\* a call of the collaborator returns or raises, and time.sleep(5) returns
Fairness ==
    /\ WF_vars(Collaborate("r1", World))
    /\ WF_vars(Backoff("r1"))

SpecLive == Spec /\ Fairness

(***************************************************************************)
(* Two requests served concurrently, interleaved at the collaborator call  *)
(* and at the backoff sleep.                                               *)
(***************************************************************************)
ConcurrentWorld ==
    [forms       |-> {[method |-> "POST", filename |-> <<"C","V",".","P","D","F">>,
                       target_role |-> <<"d","e","v">>, max_jobs |-> <<"2">>]},
     extractions |-> {[raises |-> FALSE, text |-> <<"c","v">>]},
     lists       |-> {<<Job1, Job2, Job3>>, <<Job4, Job2>>, <<Job3>>},
     resumes     |-> {<<" ","r","e","s"," ">>},
     batches     |-> {<<>>, <<Job2>>},
     outcomes    |-> {TextOutcome(Render(<<Plain(85)>>)),
                      TextOutcome(Render(<<Plain(0), Plain(100)>>)),
                      ErrorOutcome(RateLimitReachedMsg),
                      ErrorOutcome(InvalidKeyMsg)}]

NextConcurrent == \E p \in Invocations : Step(p, ConcurrentWorld)

SpecConcurrent == Init /\ [][NextConcurrent]_vars

(***************************************************************************)
(* compress_text applied to every short text.                              *)
(***************************************************************************)
CompressAlphabet == {" ", "\n", "a"}

CompressTexts == SeqsUpTo(CompressAlphabet, MaxTextLen) \cup {None}

InitCompress ==
    /\ InvocationsIdle
    /\ harness = "input"
    /\ text \in CompressTexts
    /\ max_chars \in (0 - 1)..MaxChars
    /\ compressed = <<>>
    /\ content = <<>>
    /\ written = <<>>
    /\ parsed = <<>>
    /\ SearchOff

ApplyCompress ==
    /\ harness = "input"
    /\ harness' = "output"
    /\ compressed' = compress_text(text, max_chars)
    /\ UNCHANGED <<pc, via, score_vars, index_vars, text, max_chars, content,
                   written, parsed, search_vars>>

SpecCompress == InitCompress /\ [][ApplyCompress]_vars

(***************************************************************************)
(* The parser applied to free-form texts and to texts in the instructed    *)
(* shape (written is what the collaborator wrote, segment by segment;      *)
(* empty for a free-form text).                                            *)
(***************************************************************************)
InitParse ==
    /\ InvocationsIdle
    /\ harness = "input"
    /\ written \in SeqsUpTo(WrittenSegments, MaxSegs)
    /\ content \in IF written = <<>> THEN FreeTexts ELSE {Render(written)}
    /\ parsed = <<>>
    /\ text = <<>>
    /\ max_chars = 0
    /\ compressed = <<>>
    /\ SearchOff

ApplyParse ==
    /\ harness = "input"
    /\ harness' = "output"
    /\ parsed' = ParseResponse(content)
    /\ UNCHANGED <<pc, via, score_vars, index_vars, text, max_chars, compressed,
                   content, written, search_vars>>

SpecParse == InitParse /\ [][ApplyParse]_vars

(***************************************************************************)
(* search_jobs: the request loop, one requests.get at a time.              *)
(***************************************************************************)
MaxRetries == 3

\* a test that allows a sleep after the last attempt
RetriesLeftOffByOne(a, n) == a < n

\* "if attempt < max_retries - 1"
RetriesLeft(a, n) == a < n - 1

\* "for attempt in range(max_retries)": is there an iteration for a
InRange(a, n) == 0 <= a /\ a < n

SearchReturned(data) == [kind |-> "returned", data |-> data]

\* an exception that neither except clause catches leaves search_jobs
SearchRaised == [kind |-> "raised", data |-> <<>>]

\* RequestException subclasses other than ReadTimeout: raise_for_status on an
\* error status, a refused connection, a timeout while connecting
OtherRequestErrors == {"HTTPError", "ConnectionError", "ConnectTimeout"}

\* what one requests.get with the calls after it comes to: a JSON object
\* (its "data", [] when it has none), a read timeout, another request error,
\* or a JSON body that is no object, where data.get raises AttributeError
SearchOutcomes ==
    {[kind |-> "ok", data |-> d] : d \in SourceLists}
    \cup {[kind |-> k, data |-> <<>>] :
            k \in {"ReadTimeout", "AttributeError"} \cup OtherRequestErrors}

Queries == { <<"d","e","v">>, <<"q","a">> }

Locations == { <<"I","n","d","i","a">>, <<>> }

InitSearch ==
    /\ InvocationsIdle
    /\ HarnessOff
    /\ search_pc = "entry"
    /\ query \in Queries
    /\ location \in Locations
    /\ max_retries \in (0 - 1)..MaxRetries
    /\ search_attempt = 0
    /\ last_exception = "None"
    /\ search_result = NoResult
    /\ requests_made = 0
    /\ search_sleeps = 0
    /\ search_history = <<>>

\* the loop head at attempt a: the next request, or the return after the loop
LoopHead(a) ==
    IF InRange(a, max_retries)
    THEN /\ search_pc' = "request"
         /\ search_result' = search_result
    ELSE /\ search_pc' = "done"
         /\ search_result' = SearchReturned(<<>>)

\* from the call to the first requests.get, or to the return when the range
\* is empty
SearchEnter ==
    /\ search_pc = "entry"
    /\ LoopHead(0)
    /\ UNCHANGED <<query, location, max_retries, search_attempt, last_exception,
                   requests_made, search_sleeps, search_history>>
    /\ UNCHANGED <<pc, via, score_vars, index_vars, harness_vars>>

\* one iteration: requests.get returns or raises, and the function runs on to
\* its return, its break and return, or its sleep
SearchRequest ==
    /\ search_pc = "request"
    /\ \E o \in SearchOutcomes :
          /\ requests_made' = requests_made + 1
          /\ search_history' = Append(search_history, o)
          /\ CASE o.kind = "ok" ->
                    /\ search_result' = SearchReturned(o.data)
                    /\ search_pc' = "done"
                    /\ UNCHANGED <<last_exception, search_sleeps>>
               [] o.kind = "ReadTimeout" ->
                    /\ last_exception' = o.kind
                    /\ IF RetriesLeft(search_attempt, max_retries)
                       THEN /\ search_sleeps' = search_sleeps + 1
                            /\ search_pc' = "sleep"
                            /\ UNCHANGED search_result
                       ELSE /\ search_result' = SearchReturned(<<>>)
                            /\ search_pc' = "done"
                            /\ UNCHANGED search_sleeps
               [] o.kind \in OtherRequestErrors ->
                    /\ last_exception' = o.kind
                    /\ search_result' = SearchReturned(<<>>)
                    /\ search_pc' = "done"
                    /\ UNCHANGED search_sleeps
               [] o.kind = "AttributeError" ->
                    /\ search_result' = SearchRaised
                    /\ search_pc' = "done"
                    /\ UNCHANGED <<last_exception, search_sleeps>>
    /\ UNCHANGED <<query, location, max_retries, search_attempt>>
    /\ UNCHANGED <<pc, via, score_vars, index_vars, harness_vars>>

\* time.sleep(3) returns: the next iteration of the loop
SearchSleep ==
    /\ search_pc = "sleep"
    /\ search_attempt' = search_attempt + 1
    /\ LoopHead(search_attempt + 1)
    /\ UNCHANGED <<query, location, max_retries, last_exception, requests_made,
                   search_sleeps, search_history>>
    /\ UNCHANGED <<pc, via, score_vars, index_vars, harness_vars>>

NextSearch == SearchEnter \/ SearchRequest \/ SearchSleep

SpecSearch == InitSearch /\ [][NextSearch]_vars

(***************************************************************************)
(* Claims.                                                                 *)
(***************************************************************************)
\* the invocations whose scoring call has ended
ScoringEnded(p) == pc[p] \in {"scored", "rendered"} /\ via[p] # "none"

\* the texts of the errors the code classifies as rate-limit, and of the others
RateLimitTexts == {RateLimitReachedMsg, RateLimitExceededMsg}

FatalTexts == {InvalidKeyMsg, ConnectionMsg}

\* number of pieces of a list of texts that are not blank
RECURSIVE CountNonBlank(_)
CountNonBlank(pieces) ==
    IF pieces = <<>>
    THEN 0
    ELSE (IF \A i \in 1..Len(Head(pieces)) : Head(pieces)[i] \in WhiteSpace THEN 0 ELSE 1)
         + CountNonBlank(Tail(pieces))

\* s is t without its leading and trailing whitespace
IsStripOf(s, t) ==
    \E i \in 1..(Len(t) + 1), j \in 0..Len(t) :
        /\ s = SubSeq(t, i, j)
        /\ \A k \in 1..Len(t) : (k < i \/ k > j) => t[k] \in WhiteSpace
        /\ s # <<>> => (s[1] \notin WhiteSpace /\ s[Len(s)] \notin WhiteSpace)

\* C3: when every attempt (max_gpt_retries of them) ends in a rate-limit
\* error, score_all_jobs_against_resume returns len(jobs) records, each with
\* score 0 and an analysis_text naming the rate limit, and raises nothing.
ThmC3 ==
    \A p \in Invocations :
        ( /\ Len(history[p]) = max_gpt_retries
          /\ \A i \in 1..Len(history[p]) :
                history[p][i].kind = "error" /\ history[p][i].text \in RateLimitTexts )
        => /\ outcome[p] = "returned"
           /\ raised[p] = None
           /\ Len(ai_results[p]) = Len(jobs[p])
           /\ \A i \in 1..Len(ai_results[p]) :
                /\ ai_results[p][i].score = 0
                /\ Contains(Lower(ai_results[p][i].analysis_text), RateLimitNeedle)

WitC3 ==
    \E p \in Invocations :
        /\ history[p] = <<ErrorOutcome(RateLimitExceededMsg), ErrorOutcome(RateLimitReachedMsg)>>
        /\ Len(jobs[p]) = 3
        /\ Len(ai_results[p]) = 3
        /\ outcome[p] = "returned"

\* C4: an error that is not classified as rate-limit is raised out of
\* score_all_jobs_against_resume on the attempt where it occurs: it is the
\* last collaborator call of the invocation, and no records are returned.
ThmC4 ==
    \A p \in Invocations :
        \A i \in 1..Len(history[p]) :
            (history[p][i].kind = "error" /\ history[p][i].text \in FatalTexts)
            => /\ i = Len(history[p])
               /\ calls[p] = i
               /\ pc[p] \in {"scored", "rendered"}
               /\ outcome[p] = "raised"
               /\ raised[p] = history[p][i].text
               /\ ai_results[p] = <<>>
               /\ scored_jobs[p] = <<>>

WitC4 ==
    \E p \in Invocations :
        /\ history[p] = <<ErrorOutcome(RateLimitReachedMsg), ErrorOutcome(ConnectionMsg)>>
        /\ outcome[p] = "raised"
        /\ raised[p] = ConnectionMsg

\* C5: called with an empty batch, score_all_jobs_against_resume returns an
\* empty list, makes no collaborator call and begins no backoff sleep.
ThmC5 ==
    \A p \in Invocations :
        (via[p] # "none" /\ jobs[p] = <<>>)
        => /\ pc[p] = "scored"
           /\ outcome[p] = "returned"
           /\ ai_results[p] = <<>>
           /\ calls[p] = 0
           /\ sleeps[p] = 0
           /\ history[p] = <<>>
           /\ ~response[p].received

WitC5 ==
    \E p \in Invocations :
        /\ via[p] = "direct"
        /\ jobs[p] = <<>>
        /\ outcome[p] = "returned"
        /\ ai_results[p] = <<>>

\* C7: for max_chars >= 0, compress_text returns the whitespace-stripped text
\* when that has at most max_chars characters, else its first max_chars
\* characters followed by "..." (max_chars + 3 characters in all); an empty
\* or absent text gives the empty string.
ThmC7 ==
    (harness = "output" /\ max_chars >= 0)
    => IF text = None \/ text = <<>>
       THEN compressed = <<>>
       ELSE \E i \in 1..(Len(text) + 1), j \in 0..Len(text) :
               /\ IsStripOf(SubSeq(text, i, j), text)
               /\ IF j - i + 1 <= max_chars
                  THEN compressed = SubSeq(text, i, j)
                  ELSE /\ compressed = SubSeq(text, i, i + max_chars - 1) \o <<".", ".", ".">>
                       /\ Len(compressed) = max_chars + 3

WitC7 ==
    /\ harness = "output"
    /\ max_chars = 2
    /\ text = <<" ", "a", "\n", "a">>
    /\ compressed = <<"a", "\n", ".", ".", ".">>

\* the invocations whose last collaborator call succeeded with a text
GotText(p) ==
    /\ history[p] # <<>>
    /\ history[p][Len(history[p])].kind = "text"

\* C1 (as claimed): for a non-empty batch and any text of a successful call,
\* score_all_jobs_against_resume returns exactly len(jobs) records.
OrigC1 ==
    \A p \in Invocations :
        (ScoringEnded(p) /\ jobs[p] # <<>> /\ GotText(p))
        => Len(ai_results[p]) = Len(jobs[p])

\* C1 (amended): for a non-empty batch and any text of a successful call,
\* score_all_jobs_against_resume returns one record per non-blank piece of the
\* stripped text split on "Job ", and the list index builds from it by its
\* length-mismatch handling has exactly len(jobs) records.
ThmC1 ==
    \A p \in Invocations :
        (ScoringEnded(p) /\ jobs[p] # <<>> /\ GotText(p))
        => /\ outcome[p] = "returned"
           /\ Len(ai_results[p])
                = CountNonBlank(Split(Strip(response[p].content), JobSep))
           /\ (pc[p] = "rendered" =>
                 /\ Len(scored_jobs[p]) = Len(jobs[p])
                 /\ Len(jobs_result[p]) = Len(jobs[p]))

WitC1 ==
    \E p \in Invocations :
        /\ pc[p] = "rendered"
        /\ GotText(p)
        /\ Len(jobs[p]) = 3
        /\ Len(ai_results[p]) = 4
        /\ Len(jobs_result[p]) = 3

\* C8: a scoring invocation made through index ends either with no error and
\* exactly one record per job of the limited batch, or with an error and an
\* empty list; never with a list of another length.
ThmC8 ==
    \A p \in Invocations :
        (pc[p] = "rendered" /\ via[p] = "index")
        => \/ /\ error[p] = None
              /\ Len(jobs_result[p]) = Len(jobs[p])
              /\ \A i \in 1..Len(jobs[p]) :
                    Cardinality({k \in 1..Len(jobs_result[p]) :
                        jobs_result[p][k].title = jobs[p][i].job_title}) = 1
           \/ /\ error[p] # None
              /\ jobs_result[p] = <<>>

WitC8 ==
    \E p \in Invocations :
        /\ pc[p] = "rendered"
        /\ via[p] = "index"
        /\ Len(history[p]) = 2
        /\ GotText(p)
        /\ Len(jobs[p]) = 3
        /\ Len(ai_results[p]) = 2
        /\ Len(jobs_result[p]) = 3
        /\ error[p] = None

\* C10: when scoring returned a list whose length differs from the number of
\* jobs (fewer, more, none), index emits one fallback record per job, score 0
\* with the fixed parsing-issue text; when the lengths are equal, record i
\* keeps score and analysis_text of result i, paired with job i.
ThmC10 ==
    \A p \in Invocations :
        (pc[p] = "rendered" /\ via[p] = "index" /\ outcome[p] = "returned")
        => /\ Len(scored_jobs[p]) = Len(jobs[p])
           /\ \A i \in 1..Len(jobs[p]) :
                /\ scored_jobs[p][i].title = jobs[p][i].job_title
                /\ scored_jobs[p][i].company = jobs[p][i].employer_name
                /\ IF Len(ai_results[p]) # Len(jobs[p])
                   THEN /\ scored_jobs[p][i].score = 0
                        /\ scored_jobs[p][i].analysis_text = ParsingIssueFallbackText
                   ELSE /\ scored_jobs[p][i].score = ai_results[p][i].score
                        /\ scored_jobs[p][i].analysis_text = ai_results[p][i].analysis_text

WitC10 ==
    \E p \in Invocations :
        /\ pc[p] = "rendered"
        /\ via[p] = "index"
        /\ Len(jobs[p]) = 2
        /\ Len(ai_results[p]) = 3
        /\ scored_jobs[p][2].analysis_text = ParsingIssueFallbackText

\* C2 (as claimed): every record the parser produces has a score in 0..100.
OrigC2 ==
    harness = "output"
    => \A i \in 1..Len(parsed) : parsed[i].score \in 0..100

\* C6 (as claimed): a response of N segments in the instructed shape, in input
\* order, parses to exactly N records, record i carrying the score written in
\* segment i.
OrigC6 ==
    (harness = "output" /\ written # <<>>)
    => /\ Len(parsed) = Len(written)
       /\ \A i \in 1..Len(written) : parsed[i].score = written[i].score

\* what score_all_jobs_against_resume gives for batch js when it runs alone
\* and the collaborator's outcomes are hist, in this order
AloneResult(js, hist) ==
    LET last == hist[Len(hist)]
    IN  IF js = <<>>
        THEN [outcome |-> "returned", results |-> <<>>, raised |-> None]
        ELSE IF last.kind = "text"
        THEN [outcome |-> "returned", results |-> ParseResponse(last.text),
              raised |-> None]
        ELSE IF last.kind = "none"
        THEN [outcome |-> "raised", results |-> <<>>, raised |-> NoneTypeErrorText]
        ELSE IF last.text \in RateLimitTexts
        THEN [outcome |-> "returned",
              results |-> [i \in 1..Len(js) |->
                             [score |-> 0, analysis_text |-> RateLimitFallbackText]],
              raised |-> None]
        ELSE [outcome |-> "raised", results |-> <<>>, raised |-> last.text]

\* an ended invocation holds the result of its own batch and its own outcomes
OwnResult ==
    \A p \in Invocations :
        ScoringEnded(p)
        => /\ outcome[p] = AloneResult(jobs[p], history[p]).outcome
           /\ ai_results[p] = AloneResult(jobs[p], history[p]).results
           /\ raised[p] = AloneResult(jobs[p], history[p]).raised
           /\ (jobs[p] # <<>> => user_prompt[p] = BuildPrompt(resume_text[p], jobs[p]))
           /\ (via[p] = "index" => jobs[p] = SliceTo(raw_jobs[p], MaxJobsOf(form[p])))
           /\ (pc[p] = "rendered" /\ outcome[p] = "returned"
                 => jobs_result[p] = SortByScore(Reconcile(jobs[p], ai_results[p])))

\* the state of invocation p
StateOf(p) ==
    <<pc[p], via[p], outcome[p], resume_text[p], jobs[p], user_prompt[p],
      attempt[p], response[p], last_error[p], ai_results[p], raised[p],
      calls[p], sleeps[p], history[p], form[p], raw_jobs[p], error[p],
      scored_jobs[p], jobs_result[p]>>

\* a step changes the state of one invocation at most
OneInvocationMoves ==
    \E p \in Invocations :
        \A q \in Invocations \ {p} : StateOf(q)' = StateOf(q)

\* C9: with two invocations interleaved at the collaborator call and at the
\* backoff sleep, no step of one changes anything the other holds, and each
\* ends with the result of its own resume, jobs and collaborator outcomes,
\* the one it has when it runs alone.
ThmC9 == []OwnResult /\ [][OneInvocationMoves]_vars

WitC9 ==
    /\ pc["r1"] = "rendered"
    /\ Len(history["r1"]) = 2
    /\ outcome["r1"] = "returned"
    /\ Len(jobs_result["r1"]) = 2
    /\ pc["r2"] = "call"
    /\ attempt["r2"] = 1
    /\ Len(jobs["r2"]) = 1

\* the non-blank pieces of the stripped text split on "Job ", each stripped,
\* in order of appearance
Segments(raw) ==
    LET pieces   == Split(Strip(raw), JobSep)
        stripped == [i \in 1..Len(pieces) |-> Strip(pieces[i])]
    IN  SelectSeq(stripped, LAMBDA b : b # <<>>)

IsDecimal(c) == \E d \in 1..Len(DecimalDigits) : DecimalDigits[d] = c

\* the value of the first contiguous run of decimal digits of a line, 0 when
\* the line has no digit
FirstRunValue(line) ==
    LET at == {i \in 1..Len(line) : IsDecimal(line[i])}
    IN  IF at = {}
        THEN 0
        ELSE LET first == Min(at)
                 last  == Max({j \in first..Len(line) :
                                 \A k \in first..j : IsDecimal(line[k])})
             IN  IntOf(SubSeq(line, first, last))

\* the score the first "score" line of a segment gives by its first run of digits
FirstRunScore(block) ==
    LET lines == SplitLines(block)
        hits  == {i \in 1..Len(lines) : StartsWith(Lower(lines[i]), ScorePrefix)}
    IN  IF hits = {} THEN 0 ELSE FirstRunValue(lines[Min(hits)])

\* C11 (as claimed): the score of a segment is the value of the first
\* contiguous run of decimal digits on its first line that starts with
\* "score" (any case), 0 when that line has no digit; later digits on the
\* line and later lines do not count.  Stated for texts of ASCII characters.
OrigC11 ==
    (harness = "output" /\ \A i \in 1..Len(content) : content[i] \notin NonDecimalDigits)
    => /\ Len(parsed) = Len(Segments(content))
       /\ \A i \in 1..Len(parsed) : parsed[i].score = FirstRunScore(Segments(content)[i])

\* the collaborator outcome is an error whose text tells a rate limit
IsRateLimitOutcome(o) == o.kind = "error" /\ o.text \in RateLimitTexts

\* invocation p is inside the retry loop of score_all_jobs_against_resume
InRetryLoop(p) == pc[p] \in {"call", "sleep"}

AttemptsInOrder(p) ==
    /\ calls[p] <= 2
    /\ calls[p] = Len(history[p])
    /\ calls[p] = 2 => IsRateLimitOutcome(history[p][1]) /\ sleeps[p] = 1
    /\ sleeps[p] = (IF history[p] # <<>> /\ IsRateLimitOutcome(history[p][1]) THEN 1 ELSE 0)
    /\ pc[p] = "sleep" => calls[p] = 1
    /\ pc[p] = "call" => calls[p] = sleeps[p]

\* C12: an invocation calls the collaborator at most 2 times, one call after
\* the other; the second call comes only after the first failed with a
\* rate-limit error and after exactly one backoff wait; there is no wait after
\* the final attempt, after a success or after another failure; and an
\* invocation that entered the retry loop leaves it.
ThmC12 ==
    /\ [](\A p \in Invocations : AttemptsInOrder(p))
    /\ \A p \in Invocations : InRetryLoop(p) ~> ScoringEnded(p)

WitC12 ==
    \E p \in Invocations :
        /\ ScoringEnded(p)
        /\ calls[p] = 2
        /\ sleeps[p] = 1
        /\ IsRateLimitOutcome(history[p][1])
        /\ history[p][2].kind = "text"

\* invocation p was rate-limited on its first attempt and got a text on its second
RetriedThenGotText(p) ==
    /\ ScoringEnded(p)
    /\ Len(history[p]) = 2
    /\ IsRateLimitOutcome(history[p][1])
    /\ history[p][2].kind = "text"

\* invocation q got the text t on its first attempt
GotTextAtOnce(q, t) ==
    /\ ScoringEnded(q)
    /\ history[q] = <<TextOutcome(t)>>

\* C13: when the first attempt fails with a rate-limit error and the second
\* succeeds, the function returns the parse of the second attempt's text, the
\* same list an invocation returns that got this text on its first attempt,
\* and no record carries the rate-limit fallback text.
ThmC13 ==
    \A p \in Invocations :
        RetriedThenGotText(p) =>
            /\ outcome[p] = "returned"
            /\ raised[p] = None
            /\ ai_results[p] = ParseResponse(history[p][2].text)
            /\ \A i \in 1..Len(ai_results[p]) :
                  ~Contains(ai_results[p][i].analysis_text, RateLimitFallbackText)
            /\ \A q \in Invocations :
                  GotTextAtOnce(q, history[p][2].text) =>
                      /\ outcome[q] = outcome[p]
                      /\ ai_results[q] = ai_results[p]

WitC13 ==
    \E p, q \in Invocations :
        /\ p # q
        /\ RetriedThenGotText(p)
        /\ GotTextAtOnce(q, history[p][2].text)
        /\ Len(ai_results[p]) = 2

\* invocation p has built its user_prompt
PromptBuilt(p) == via[p] # "none" /\ jobs[p] # <<>>

\* block b of a prompt is the block of the job js[i], tagged i
IsBlockOfJob(b, i, js) ==
    /\ b.kind = "job"
    /\ b.ordinal = i
    /\ b.title = js[i].job_title
    /\ b.company = js[i].employer_name

\* C14 (as claimed): the payload is the resume block, then the job blocks in
\* input order tagged 1..N, then the instruction block.
OrigC14 ==
    \A p \in Invocations :
        PromptBuilt(p) =>
            LET N == Len(jobs[p]) IN
            /\ Len(user_prompt[p]) = N + 2
            /\ user_prompt[p][1].kind = "resume"
            /\ \A i \in 1..N : IsBlockOfJob(user_prompt[p][1 + i], i, jobs[p])
            /\ user_prompt[p][N + 2].kind = "instructions"

\* C14 (amended): the payload is the resume block, then the fixed instruction
\* block, then one block per job in input order, the i-th tagged with the
\* ordinal i counted from 1.
ThmC14 ==
    \A p \in Invocations :
        PromptBuilt(p) =>
            LET N == Len(jobs[p]) IN
            /\ Len(user_prompt[p]) = N + 2
            /\ user_prompt[p][1].kind = "resume"
            /\ IsStripOf(user_prompt[p][1].text, resume_text[p])
            /\ user_prompt[p][2].kind = "instructions"
            /\ \A i \in 1..N : IsBlockOfJob(user_prompt[p][2 + i], i, jobs[p])

WitC14 ==
    \E p \in Invocations :
        /\ PromptBuilt(p)
        /\ Len(jobs[p]) = 3
        /\ user_prompt[p][5].ordinal = 3
        /\ user_prompt[p][5].title = jobs[p][3].job_title
        /\ jobs[p][3].job_title # jobs[p][1].job_title

\* C15: the parser is positional: its i-th record is built from the i-th
\* non-empty segment of the text in order of appearance, whatever number
\* follows the segment's marker, and there are as many records as non-empty
\* segments.
ThmC15 ==
    harness = "output" =>
        /\ Len(parsed) = Len(Segments(content))
        /\ \A i \in 1..Len(parsed) :
              parsed[i].analysis_text = JobSep \o Segments(content)[i]

\* markers numbered 10 and 8, in this order
WitC15 ==
    /\ harness = "output"
    /\ content = JobSep \o <<"1", "0">> \o JobSep \o <<"8">>
    /\ Len(parsed) = 2
    /\ parsed[1].analysis_text = JobSep \o <<"1", "0">>
    /\ parsed[2].analysis_text = JobSep \o <<"8">>

\* what the last request of search_jobs came to
LastRequest == search_history[Len(search_history)]

\* search_jobs has ended after a request failure or without any request
SearchFailed ==
    /\ search_pc = "done"
    /\ \/ search_history = <<>>
       \/ LastRequest.kind \in {"ReadTimeout"} \cup OtherRequestErrors

\* C16: search_jobs makes at most max_retries requests; a further request
\* comes only after a read timeout with attempts left, and after one wait;
\* any other request failure ends the loop at once; when timeouts use up the
\* attempts, on another request failure and with max_retries = 0 it returns
\* the empty list and raises nothing; the first successful request's data is
\* returned with no request after it.
ThmC16 ==
    /\ requests_made <= Max({0, max_retries})
    /\ requests_made = Len(search_history)
    /\ \A i \in 1..(Len(search_history) - 1) : search_history[i].kind = "ReadTimeout"
    /\ search_pc \in {"request", "sleep"} => search_sleeps = requests_made
    /\ search_pc = "sleep" =>
          LastRequest.kind = "ReadTimeout" /\ requests_made < max_retries
    /\ (search_pc = "done" /\ requests_made > 0) => search_sleeps = requests_made - 1
    /\ (search_pc = "done" /\ requests_made > 0 /\ LastRequest.kind = "ReadTimeout")
          => requests_made = max_retries
    /\ (search_pc = "done" /\ requests_made = 0) => max_retries <= 0
    /\ SearchFailed => search_result = [kind |-> "returned", data |-> <<>>]
    /\ (search_pc = "done" /\ requests_made > 0 /\ LastRequest.kind = "ok")
          => search_result = [kind |-> "returned", data |-> LastRequest.data]
    /\ search_pc \in {"entry", "request", "sleep"} => search_result.kind = "pending"

\* three read timeouts with the default of three attempts
WitC16 ==
    /\ search_pc = "done"
    /\ max_retries = 3
    /\ requests_made = 3
    /\ search_sleeps = 2
    /\ \A i \in 1..3 : search_history[i].kind = "ReadTimeout"
    /\ search_result = [kind |-> "returned", data |-> <<>>]

\* index has delivered a job list for invocation p
Delivered(p) == pc[p] = "rendered" /\ via[p] = "index" /\ outcome[p] = "returned"

\* list b is list a rearranged by a one-to-one mapping of positions that
\* keeps records of equal score in their order in a
IsStableRearrangement(b, a) ==
    /\ Len(b) = Len(a)
    /\ \E f \in [1..Len(a) -> 1..Len(a)] :
          /\ \A i, j \in 1..Len(a) : i # j => f[i] # f[j]
          /\ \A i \in 1..Len(a) : b[i] = a[f[i]]
          /\ \A i, j \in 1..Len(a) :
                (i < j /\ b[i].score = b[j].score) => f[i] < f[j]

\* C17: the list index delivers is a permutation of the reconciled records
\* with scores that never rise from one record to the next, and records of
\* equal score, all-zero fallbacks included, stay in the order of the batch.
ThmC17 ==
    \A p \in Invocations :
        Delivered(p) =>
            /\ IsStableRearrangement(jobs_result[p], scored_jobs[p])
            /\ \A i \in 1..(Len(jobs_result[p]) - 1) :
                  jobs_result[p][i].score >= jobs_result[p][i + 1].score
            /\ \A i \in 1..Len(scored_jobs[p]) :
                  scored_jobs[p][i].title = jobs[p][i].job_title

\* scores 85, 100, 85 for three jobs: the second job is delivered first, the
\* first and the third keep their order
WitC17 ==
    \E p \in Invocations :
        /\ Delivered(p)
        /\ Len(jobs[p]) = 3
        /\ scored_jobs[p][1].score = 85 /\ scored_jobs[p][2].score = 100
        /\ scored_jobs[p][3].score = 85
        /\ jobs_result[p] = <<scored_jobs[p][2], scored_jobs[p][1], scored_jobs[p][3]>>
        /\ scored_jobs[p][1] # scored_jobs[p][3]

\* the ways score_all_jobs_against_resume ends for a non-empty batch
EndedWithResponse(p) ==
    /\ outcome[p] = "returned"
    /\ response[p].received
    /\ history[p][Len(history[p])].kind = "text"
    /\ ai_results[p] = ParseResponse(response[p].content)

EndedWithRateLimitFallback(p) ==
    /\ outcome[p] = "returned"
    /\ ~response[p].received
    /\ Len(history[p]) = 2
    /\ \A i \in 1..2 : IsRateLimitOutcome(history[p][i])
    /\ Len(ai_results[p]) = Len(jobs[p])
    /\ \A i \in 1..Len(ai_results[p]) :
          ai_results[p][i].analysis_text = RateLimitFallbackText

EndedByRaising(p) ==
    /\ outcome[p] = "raised"
    /\ raised[p] # None

\* C18: for a non-empty batch the retry loop is left with a response, by the
\* return of the rate-limit fallback or by a raise; the function is never past
\* the loop with response None, and no record it returns carries the
\* "internal error" fallback text.
ThmC18 ==
    \A p \in Invocations :
        /\ \A i \in 1..Len(ai_results[p]) :
              ai_results[p][i].analysis_text # InternalErrorFallbackText
        /\ (ScoringEnded(p) /\ jobs[p] # <<>>) =>
              \/ EndedWithResponse(p)
              \/ EndedWithRateLimitFallback(p)
              \/ EndedByRaising(p)
        /\ pc[p] = "sleep" => attempt[p] + 1 < max_gpt_retries

\* both attempts were rate-limited and the rate-limit fallback came back
WitC18 ==
    \E p \in Invocations :
        /\ ScoringEnded(p)
        /\ jobs[p] # <<>>
        /\ EndedWithRateLimitFallback(p)
        /\ attempt[p] = max_gpt_retries - 1

\* the batch size the submitted max_jobs value allows: 1 for zero and for a
\* negative number, the number itself up to 3, and 3 for a larger number, a
\* missing value and a value that is no number
AllowedJobs(v) ==
    CASE v = <<"0">>      -> 1
      [] v = <<"-", "2">> -> 1
      [] v = <<"2">>      -> 2
      [] OTHER            -> 3

\* C19: whatever max_jobs value the form carries, the batch index hands to
\* scoring has at least 1 and at most 3 jobs and no more jobs than the job
\* source returned: it is the first jobs of the source's list.
ThmC19 ==
    \A p \in Invocations :
        via[p] = "index" =>
            /\ 1 <= Len(jobs[p])
            /\ Len(jobs[p]) <= 3
            /\ Len(jobs[p]) <= Len(raw_jobs[p])
            /\ Len(jobs[p]) = Min({Len(raw_jobs[p]), AllowedJobs(form[p].max_jobs)})
            /\ \A i \in 1..Len(jobs[p]) : jobs[p][i] = raw_jobs[p][i]

\* max_jobs = 7 and four jobs from the source: three are scored
WitC19 ==
    \E p \in Invocations :
        /\ via[p] = "index"
        /\ form[p].max_jobs = <<"7">>
        /\ Len(raw_jobs[p]) = 4
        /\ Len(jobs[p]) = 3

=============================================================================
